---------------------------- MODULE Spec2Model ----------------------------
(***************************************************************************)
(* Model of the row-processing engine of ai-cellfill-excel (src/main.py): *)
(* the workbook in memory, the persisted prompts.xlsx, the pass over the  *)
(* rows with one call_api per configured LLM, the completion flag and the *)
(* saves.                                                                  *)
(*                                                                         *)
(* Python values are records [t, n, s]: None, an int, or a str.  A str is *)
(* a sequence of tokens (pieces of text); the tokens are cut so that the  *)
(* text "Error" is always a token of its own, which makes a prefix test   *)
(* on tokens agree with str.startswith on characters.                     *)
(***************************************************************************)
EXTENDS Integers, Sequences, FiniteSets, TLC

(***************************************************************************)
(* Bounds of the model.                                                    *)
(***************************************************************************)
MaxRows == 2
MaxRuns == 2
MaxFaults == 2

(***************************************************************************)
(* Python values.                                                          *)
(***************************************************************************)
None == [t |-> "none", n |-> 0, s |-> <<>>]
PyInt(k) == [t |-> "int", n |-> k, s |-> <<>>]
PyStr(q) == [t |-> "str", n |-> 0, s |-> q]

\* bool(v): None, 0 and "" are false.
Truthy(v) == \/ v.t = "int" /\ v.n # 0
             \/ v.t = "str" /\ v.s # <<>>

\* Tokens of white space, and the token of a control character that a
\* worksheet cell refuses.
WS == " "
CTRL == "\\x0b"

RECURSIVE LStrip(_)
LStrip(q) == IF q # <<>> /\ Head(q) = WS THEN LStrip(Tail(q)) ELSE q

RECURSIVE RStrip(_)
RStrip(q) == IF q # <<>> /\ q[Len(q)] = WS
               THEN RStrip(SubSeq(q, 1, Len(q) - 1))
               ELSE q

\* str.strip()
Strip(q) == RStrip(LStrip(q))

\* str.startswith(p)
StartsWith(q, p) == /\ Len(q) >= Len(p)
                    /\ SubSeq(q, 1, Len(p)) = p

\* str(v) of a cell value.
StrOf(v) == IF v.t = "str" THEN v.s
            ELSE IF v.t = "int" THEN <<ToString(v.n)>>
            ELSE <<"None">>

\* int(v): the integer, or the exception int() raises.  A str is numeric
\* when, stripped, it is one token that spells an integer.
Digits == [x \in {"0", "1", "2"} |-> IF x = "0" THEN 0 ELSE IF x = "1" THEN 1 ELSE 2]

IntOf(v) ==
    IF v.t = "int" THEN [exc |-> "", n |-> v.n]
    ELSE IF v.t = "none" THEN [exc |-> "TypeError", n |-> 0]
    ELSE IF Len(Strip(v.s)) = 1 /\ Strip(v.s)[1] \in DOMAIN Digits
           THEN [exc |-> "", n |-> Digits[Strip(v.s)[1]]]
           ELSE [exc |-> "ValueError", n |-> 0]

(***************************************************************************)
(* call_api: one request to one backend.  What the network answers is the *)
(* input `resp`: [cls, content], cls one of ResponseClasses.               *)
(*   text        2xx, the first choice/candidate carries `content`         *)
(*   no_text     2xx, the first choice/candidate has no content/text       *)
(*   no_parts    2xx, the first candidate has no content or no parts       *)
(*   empty       2xx, no choices/candidates                                *)
(*   bad_body    2xx, handling the body raises (not a RequestException)    *)
(*   timeout     requests.exceptions.Timeout                               *)
(*   http_json   non-2xx, body parses as JSON                              *)
(*   http_text   non-2xx, e.response.json() raises json.JSONDecodeError    *)
(*   http_other  non-2xx, e.response.json() raises another exception       *)
(*   conn        RequestException without a response                       *)
(* The result is [raised, val, sent]: the str returned, or the exception   *)
(* that leaves call_api, and whether a request was sent.                   *)
(***************************************************************************)
ResponseClasses == {"text", "no_text", "no_parts", "empty", "bad_body",
                    "timeout", "http_json", "http_text", "http_other", "conn"}

\* f"Error ({api_name}): ..."
ErrorOf(api_name, msg) == <<"Error", " (", api_name, ")", ":", msg>>

Returned(q, sent) == [raised |-> FALSE, val |-> q, sent |-> sent, msg |-> <<>>]
Raised(m, sent) == [raised |-> TRUE, val |-> <<>>, sent |-> sent, msg |-> m]

\* The except clauses of call_api, shared by both protocols.
call_api_except(api_name, resp) ==
    IF resp.cls = "timeout"
      THEN Returned(ErrorOf(api_name, " API request timed out."), TRUE)
    ELSE IF resp.cls = "http_json"
      THEN Returned(ErrorOf(api_name, " API request failed.")
                      \o <<" Status: ", "500", ". Detail: ", "{detail}">>, TRUE)
    ELSE IF resp.cls = "http_text"
      THEN Returned(ErrorOf(api_name, " API request failed.")
                      \o <<" Status: ", "500", ". Response: ", "body">>, TRUE)
    ELSE IF resp.cls = "http_other"
      THEN Raised(<<"Expecting value">>, TRUE)
    ELSE IF resp.cls = "conn"
      THEN Returned(ErrorOf(api_name, " API request failed.")
                      \o <<" Exception: ", "connection refused">>, TRUE)
    ELSE Returned(ErrorOf(api_name, " Processing API response failed. ")
                      \o <<"exception text">>, TRUE)

call_api(api_config, system_prompt, user_prompt, resp) ==
    LET api_name == api_config.NAME
        api_type == api_config.TYPE
        failure  == resp.cls \in {"bad_body", "timeout", "http_json",
                                  "http_text", "http_other", "conn"}
    IN  IF api_type = "openai"
          THEN IF failure THEN call_api_except(api_name, resp)
               ELSE IF resp.cls = "empty"
                 THEN Returned(ErrorOf(api_name, " Unexpected API response format."), TRUE)
               ELSE IF resp.cls = "text" /\ resp.content # <<>>
                 THEN Returned(Strip(resp.content), TRUE)
               ELSE Returned(ErrorOf(api_name, " No content in response message."), TRUE)
        ELSE IF api_type = "google"
          THEN IF failure THEN call_api_except(api_name, resp)
               ELSE IF resp.cls = "empty"
                 THEN Returned(ErrorOf(api_name, " No candidates in API response."), TRUE)
               ELSE IF resp.cls = "no_parts"
                 THEN Returned(ErrorOf(api_name, " No content/parts in response. Finish: ")
                                 \o <<"SAFETY">>, TRUE)
               ELSE IF resp.cls = "text" /\ resp.content # <<>>
                 THEN Returned(Strip(resp.content), TRUE)
               ELSE Returned(ErrorOf(api_name, " No text in response part."), TRUE)
        ELSE Returned(<<"Error", ":", " Unsupported API type '", api_type, "'">>, FALSE)

\* Whether call_api's answer is one of its failure outcomes: every return
\* but the two "return content.strip()".
IsFailureOutcome(api_config, resp) ==
    \/ api_config.TYPE \notin {"openai", "google"}
    \/ resp.cls # "text"
    \/ resp.content = <<>>

\* The test the row loop makes on the value it has written:
\* api_result and api_result.startswith("Error:")
IsErrorResult(api_result) ==
    /\ api_result # <<>>
    /\ StartsWith(api_result, <<"Error", ":">>)

(***************************************************************************)
(* The worksheet: a sequence of rows, row 1 the header, each row a         *)
(* sequence of cell values.  The empty sequence stands for "no file".      *)
(***************************************************************************)
PROMPT_HEADER == "user prompt"
FLAG_HEADER == "generate? (0 yes 1 no)"

Cell(sh, r, c) == sh[r][c]
SetCell(sh, r, c, v) == [sh EXCEPT ![r][c] = v]

\* A worksheet cell refuses a str that holds a control character
\* (the assignment raises).
CellAccepts(q) == \A i \in 1..Len(q) : q[i] # CTRL

\* str(e) of the exception a refused assignment raises: the library puts
\* the refused value in the message, or no message at all, by its version.
RefusedMessages(q) == {q \o <<" cannot be used in worksheets.">>, <<>>}

expected_headers(configs) ==
    <<PyStr(<<PROMPT_HEADER>>), PyStr(<<FLAG_HEADER>>)>>
      \o [i \in 1..Len(configs) |-> PyStr(<<configs[i].NAME>>)]

\* {cfg["NAME"]: idx + 3 for idx, cfg in enumerate(llm_configs) if cfg["ENABLED"]}:
\* a later entry of the same name replaces an earlier one.
ColMapOf(configs) ==
    LET names == {configs[i].NAME : i \in {j \in 1..Len(configs) : configs[j].IS_ENABLED}}
        last(nm) == CHOOSE i \in 1..Len(configs) :
                      /\ configs[i].NAME = nm /\ configs[i].IS_ENABLED
                      /\ \A j \in 1..Len(configs) :
                           (configs[j].NAME = nm /\ configs[j].IS_ENABLED) => j <= i
    IN  [nm \in names |-> last(nm) + 2]

\* llm_col_map.get(name): 0 stands for None.
ColGet(map, nm) == IF nm \in DOMAIN map THEN map[nm] ELSE 0

\* min(llm_col_map.values())
\* first_llm_col with the two leading columns taken off: the position among
\* the LLM columns instead of the column of the sheet.
first_llm_col_AmongLLMs(map) ==
    (CHOOSE c \in {map[nm] : nm \in DOMAIN map} :
        \A nm \in DOMAIN map : c <= map[nm]) - 2

first_llm_col(map) ==
    CHOOSE c \in {map[nm] : nm \in DOMAIN map} :
        \A nm \in DOMAIN map : c <= map[nm]

\* find_column_index: 1-based index of the first header cell equal to the
\* name, 0 for None.
find_column_index(sh, header_name) ==
    LET hits == {i \in 1..Len(sh[1]) : sh[1][i] = PyStr(<<header_name>>)}
    IN  IF hits = {} THEN 0 ELSE CHOOSE i \in hits : \A j \in hits : i <= j

\* DefaultedFlags with the index find_column_index returns taken for a
\* 0-based one: the cells of the column before the flag column are tested
\* and set.
DefaultedFlags_ColumnBefore(sh) ==
    LET col_idx == find_column_index(sh, FLAG_HEADER) - 1
    IN  IF col_idx < 1 THEN sh
        ELSE [r \in 1..Len(sh) |->
                IF r >= 2 /\ sh[r][col_idx] = None
                  THEN [sh[r] EXCEPT ![col_idx] = PyInt(0)]
                  ELSE sh[r]]

\* read_and_process_excel, the workbook it saves: every empty flag cell of
\* rows 2.. set to 0.
DefaultedFlags(sh) ==
    LET col_idx == find_column_index(sh, FLAG_HEADER)
    IN  IF col_idx = 0 THEN sh
        ELSE [r \in 1..Len(sh) |->
                IF r >= 2 /\ sh[r][col_idx] = None
                  THEN [sh[r] EXCEPT ![col_idx] = PyInt(0)]
                  ELSE sh[r]]

(***************************************************************************)
(* read_config: the .config file is missing, unreadable, or a sequence of  *)
(* sections [prefix, suffix, KEY, ENDPOINT, MODEL, NAME, TYPE,             *)
(* ENABLED_RAW];                                                           *)
(* the section is named prefix + suffix and an option the section does not *)
(* have is "" (as is a KEY, ENDPOINT or MODEL given with no value, which   *)
(* the validation takes alike).                                            *)
(***************************************************************************)
\* str.lower() of the TYPE values a file holds.
Lower(t) == IF t = "OpenAI" THEN "openai"
            ELSE IF t = "Google" THEN "google"
            ELSE t

\* config.getboolean(section, "ENABLED", fallback=True): the value, or the
\* ValueError of a text that is no boolean.
GetBoolean(raw) ==
    IF raw = "" THEN [exc |-> "", b |-> TRUE]
    ELSE IF Lower(raw) \in {"1", "yes", "true", "on"} THEN [exc |-> "", b |-> TRUE]
    ELSE IF Lower(raw) \in {"0", "no", "false", "off"} THEN [exc |-> "", b |-> FALSE]
    ELSE [exc |-> "ValueError", b |-> FALSE]

\* The api_config dict built from one [API_*] section.
ApiConfigOf(sec) ==
    [NAME |-> IF sec.NAME = "" THEN sec.suffix ELSE sec.NAME,
     TYPE |-> IF sec.TYPE = "" THEN "openai" ELSE Lower(sec.TYPE),
     IS_ENABLED |-> GetBoolean(sec.ENABLED_RAW).b,
     KEY |-> sec.KEY, ENDPOINT |-> sec.ENDPOINT, MODEL |-> sec.MODEL]

\* The "basic validation" of one api_config.
IsValidConfig(c) ==
    c.KEY # "" /\ c.ENDPOINT # "" /\ c.MODEL # "" /\ c.IS_ENABLED

RECURSIVE LoadSections(_)
LoadSections(secs) ==
    IF secs = <<>> THEN <<>>
    ELSE LET sec == Head(secs)
             rest == LoadSections(Tail(secs))
         IN  IF sec.prefix = "API_" /\ IsValidConfig(ApiConfigOf(sec))
               THEN <<ApiConfigOf(sec)>> \o rest
               ELSE rest

\* An exception while the sections are read (here the ValueError of
\* getboolean) is caught by "except Exception" and the list built so far is
\* given up: read_config returns [].
read_config(source) ==
    IF source.kind # "sections" THEN <<>>
    ELSE IF \E i \in 1..Len(source.sections) :
              /\ source.sections[i].prefix = "API_"
              /\ GetBoolean(source.sections[i].ENABLED_RAW).exc # ""
      THEN <<>>
    ELSE LoadSections(source.sections)

(***************************************************************************)
(* Inputs: the .config files, the system prompt, and the documents a user  *)
(* leaves on disk.                                                         *)
(***************************************************************************)
Section(prefix, suffix, name, type, key, enabled) ==
    [prefix |-> prefix, suffix |-> suffix, NAME |-> name, TYPE |-> type,
     KEY |-> key, ENDPOINT |-> "https://e", MODEL |-> "m", ENABLED_RAW |-> enabled]

Sections(secs) == [kind |-> "sections", sections |-> secs]

\* Two files with two valid sections each (and, between them, a section that
\* is no [API_*] section, one that is disabled and one without a KEY), a
\* file whose two sections give the same NAME, a file with no valid
\* section, a file with a section whose ENABLED is no boolean, no file, and
\* a file that cannot be parsed.
Setups ==
    { [source |-> Sections(<<Section("API_", "A", "Same", "ollama", "k", ""),
                             Section("API_", "B", "Same", "claude", "k", "")>>),
       system_prompt |-> <<>>],
      [source |-> Sections(<<Section("API_", "GPT", "", "", "k", ""),
                             Section("", "general", "", "", "k", "maybe"),
                             Section("API_", "Old", "", "", "k", "false"),
                             Section("API_", "Gemini", "Gem", "Google", "k", "yes")>>),
       system_prompt |-> <<"be brief">>],
      [source |-> Sections(<<Section("API_", "Loc", "", "ollama", "k", "true"),
                             Section("API_", "NoKey", "", "", "", ""),
                             Section("API_", "GPT", "", "OpenAI", "k", "")>>),
       system_prompt |-> <<>>],
      [source |-> Sections(<<Section("API_", "NoKey", "", "", "", ""),
                             Section("API_", "Old", "", "", "k", "off")>>),
       system_prompt |-> <<>>],
      [source |-> Sections(<<Section("API_", "GPT", "", "", "k", ""),
                             Section("API_", "Gemini", "Gem", "google", "k", "maybe")>>),
       system_prompt |-> <<>>],
      [source |-> [kind |-> "missing", sections |-> <<>>], system_prompt |-> <<>>],
      [source |-> [kind |-> "unreadable", sections |-> <<>>], system_prompt |-> <<>>] }

\* The lists of backends the files above give.
ConfigLists == {read_config(su.source) : su \in Setups} \ {<<>>}

\* A prompt cell with text, white space around it.
Hello == PyStr(<<WS, "hello", WS>>)

\* The <<prompt, flag>> cells of the data rows a user leaves in the
\* document: pending, unset, non-numeric and out-of-range flags with a
\* prompt, a pending flag with a prompt of white space, a non-numeric flag
\* with no prompt.
PromptsAndFlags ==
    { <<Hello, PyInt(0)>>, <<Hello, None>>, <<Hello, PyStr(<<"abc">>)>>,
      <<Hello, PyInt(2)>>, <<Hello, PyInt(-1)>>,
      <<PyStr(<<WS>>), PyInt(0)>>, <<None, PyStr(<<"abc">>)>> }

\* A row flagged 1 holds a failure string of an earlier run in the first
\* output column and nothing in the others.
DataRows(configs) ==
    { pf \o [i \in 1..Len(configs) |-> None] : pf \in PromptsAndFlags }
    \cup
    { <<Hello, PyInt(1)>>
        \o [i \in 1..Len(configs) |->
              IF i = 1 THEN PyStr(ErrorOf(configs[1].NAME, " API request timed out."))
                       ELSE None] }

RECURSIVE SeqsUpTo(_, _)
SeqsUpTo(S, n) ==
    IF n = 0 THEN {<<>>}
    ELSE LET shorter == SeqsUpTo(S, n - 1)
         IN  shorter \cup {Append(q, x) : q \in {t \in shorter : Len(t) = n - 1}, x \in S}

\* No file, or the header row and up to MaxRows data rows of any kind, or
\* the header row and MaxRows + 1 data rows that are pending with a prompt
\* or flagged 1.
LongRows(configs) ==
    {row \in DataRows(configs) : row[1] = Hello /\ row[2] \in {PyInt(0), PyInt(1)}}

Documents(configs) ==
    {<<>>}
    \cup {<<expected_headers(configs)>> \o rows :
            rows \in SeqsUpTo(DataRows(configs), MaxRows)}
    \cup {<<expected_headers(configs)>> \o rows :
            rows \in {q \in SeqsUpTo(LongRows(configs), MaxRows + 1) :
                        Len(q) = MaxRows + 1}}

\* What the network answers to the requests of the row loop: the text, a
\* text with a control character in it, a timeout, or an error status whose
\* body cannot be decoded.  A backend of an unsupported type is sent nothing.
PlainText(cfg) == [cls |-> "text", content |-> <<WS, "text of ", cfg.NAME, WS>>]

Responses(cfg) ==
    IF cfg.TYPE \notin {"openai", "google"} THEN {PlainText(cfg)}
    ELSE {PlainText(cfg), [cls |-> "text", content |-> <<"text", CTRL>>]}
           \cup {[cls |-> c, content |-> <<>>] : c \in {"timeout", "http_other"}}

(***************************************************************************)
(* State.                                                                  *)
(***************************************************************************)
VARIABLES
    config_file,              \* .config on disk
    file,                     \* prompts.xlsx on disk
    llm_configs,              \* what read_config returned
    system_prompt,            \* what read_system_prompt returned
    sheet,                    \* the workbook main() holds in memory
    llm_col_map,
    flag_col_idx,
    pc,                       \* where main() is
    row_idx,
    api_idx,                  \* position of the loop over llm_configs
    user_prompt,
    all_apis_called_for_row,
    rows_processed_count,
    exc,                      \* str(e) of the exception the row handler holds
    console,                  \* which line the last result write printed
    run,                      \* which run of the script this is
    faults,                   \* adverse answers of the environment so far
    calls,                    \* this run's invocations of call_api
    sheet0,                   \* the workbook as this run loaded it
    dirty,                    \* a cell was set since the last workbook.save
    file0,                    \* prompts.xlsx as it was when this run started
    visits,                   \* the row_idx values the row loop has taken
    final_saves,              \* how often step 5 has run in this run
    last_save                 \* the row loop's latest workbook.save, and how it ended

vars == <<file, llm_configs, system_prompt, sheet, llm_col_map, flag_col_idx,
          pc, row_idx, api_idx, user_prompt, all_apis_called_for_row,
          rows_processed_count, exc, console, run, faults, calls, sheet0, dirty,
          config_file, file0, visits, final_saves, last_save>>

\* No workbook.save of the row loop yet.
NoSave == [row |-> 0, ok |-> TRUE]

Init ==
    /\ \E su \in Setups :
         /\ config_file = su.source
         /\ system_prompt = su.system_prompt
    /\ file \in UNION {Documents(configs) : configs \in ConfigLists}
    /\ llm_configs = <<>>
    /\ file0 = file
    /\ visits = <<>>
    /\ final_saves = 0
    /\ last_save = NoSave
    /\ sheet = <<>>
    /\ llm_col_map = <<>>
    /\ flag_col_idx = 0
    /\ pc = "start"
    /\ row_idx = 0
    /\ api_idx = 0
    /\ user_prompt = <<>>
    /\ all_apis_called_for_row = FALSE
    /\ rows_processed_count = 0
    /\ exc = <<>>
    /\ console = ""
    /\ run = 1
    /\ faults = 0
    /\ calls = <<>>
    /\ sheet0 = <<>>
    /\ dirty = FALSE

\* workbook.save either writes the file or raises; the environment is
\* adverse at most MaxFaults times.
SaveOutcomes == IF faults < MaxFaults THEN {TRUE, FALSE} ELSE {TRUE}
Cost(ok) == IF ok THEN 0 ELSE 1

(***************************************************************************)
(* The decisions of the row loop on the flag cell and on the prompt cell.  *)
(***************************************************************************)
\* FlagDecision with the test for 1 lost: a row flagged 1 is processed too.
FlagDecision_DoneReprocessed(should_generate_val) ==
    LET i == IntOf(should_generate_val)
    IN  IF i.exc # "" THEN [row_needs_processing |-> TRUE, coerce |-> TRUE]
        ELSE [row_needs_processing |-> (i.n \in {0, 1}), coerce |-> FALSE]

\* FlagDecision with an out-of-range integer handled like a non-numeric
\* value: set to 0 and processed.
FlagDecision_OutOfRangeCoerced(should_generate_val) ==
    LET i == IntOf(should_generate_val)
    IN  IF i.exc # "" \/ i.n \notin {0, 1}
          THEN [row_needs_processing |-> TRUE, coerce |-> TRUE]
          ELSE [row_needs_processing |-> (i.n = 0), coerce |-> FALSE]

\* int(should_generate_val) == 0: process; == 1: skip; any other integer:
\* skip ("must be 0 or 1"); ValueError or TypeError: set the cell to 0 and
\* process.
FlagDecision(should_generate_val) ==
    LET i == IntOf(should_generate_val)
    IN  IF i.exc # "" THEN [row_needs_processing |-> TRUE, coerce |-> TRUE]
        ELSE [row_needs_processing |-> (i.n = 0), coerce |-> FALSE]

\* PromptOf without the strip(): a prompt of white space counts as a prompt.
PromptOf_NoStrip(cellval) == IF Truthy(cellval) THEN StrOf(cellval) ELSE <<>>

\* str(user_prompt_cell.value).strip() if user_prompt_cell.value else None;
\* the empty sequence stands for both None and "", which the loop tests
\* alike (if user_prompt).
PromptOf(cellval) == IF Truthy(cellval) THEN Strip(StrOf(cellval)) ELSE <<>>

(***************************************************************************)
(* main(), steps 1-3: read the configuration and the system prompt, open   *)
(* or create the workbook, build the column map, find the flag column.     *)
(* Any failure returns before a row is looked at (pc = "exit").            *)
(***************************************************************************)
\* HeadersDiffer comparing the number of columns only.
HeadersDiffer_LengthOnly(current_headers, headers) ==
    Len(current_headers) # Len(headers)

\* initialize_excel: current_headers != expected_headers.
HeadersDiffer(current_headers, headers) == current_headers # headers

Start ==
    /\ pc = "start"
    /\ llm_configs' = read_config(config_file)
    /\ LET configs == read_config(config_file)
           headers == expected_headers(configs)
           created == <<headers>>
       IN  IF configs = <<>>
             THEN /\ pc' = "exit"
                  /\ UNCHANGED <<file, sheet, llm_col_map, flag_col_idx, faults,
                                 sheet0>>
           ELSE IF file = <<>>
             THEN \E ok \in SaveOutcomes :
                    /\ faults' = faults + Cost(ok)
                    /\ file' = IF ok THEN created ELSE file
                    /\ sheet' = IF ok THEN created ELSE sheet
                    /\ sheet0' = sheet'
                    /\ llm_col_map' = IF ok THEN ColMapOf(configs) ELSE llm_col_map
                    /\ flag_col_idx' = IF ok THEN find_column_index(created, FLAG_HEADER)
                                             ELSE flag_col_idx
                    /\ pc' = IF ok THEN "defaults" ELSE "exit"
           ELSE IF HeadersDiffer(file[1], headers)
             THEN /\ pc' = "exit"
                  /\ UNCHANGED <<file, sheet, llm_col_map, flag_col_idx, faults,
                                 sheet0>>
           ELSE /\ sheet' = file
                /\ sheet0' = file
                /\ llm_col_map' = ColMapOf(configs)
                /\ flag_col_idx' = find_column_index(file, FLAG_HEADER)
                /\ pc' = IF find_column_index(file, FLAG_HEADER) = 0
                           THEN "exit" ELSE "defaults"
                /\ UNCHANGED <<file, faults>>
    /\ UNCHANGED <<system_prompt, row_idx, api_idx, user_prompt,
                   all_apis_called_for_row, rows_processed_count, exc, console,
                   run, calls, dirty, config_file, file0, visits, final_saves,
                   last_save>>

(***************************************************************************)
(* read_and_process_excel(EXCEL_FILE): loads its own workbook from the     *)
(* file, defaults the empty flags and saves it; a failure is printed and   *)
(* leaves the file as it was.  The workbook main() holds is not touched.   *)
(***************************************************************************)
\* for row_idx in range(2, sheet.max_row + 1): row 1 is the header row.
FIRST_ROW == 2

\* read_and_process_excel defaulting the flags in the workbook main() holds
\* instead of in a workbook of its own.
read_and_process_excel_SharedWorkbook ==
    /\ pc = "defaults"
    /\ sheet' = DefaultedFlags(sheet)
    /\ \E ok \in SaveOutcomes :
         /\ faults' = faults + Cost(ok)
         /\ file' = IF ok THEN DefaultedFlags(sheet) ELSE file
    /\ pc' = "row"
    /\ row_idx' = FIRST_ROW
    /\ rows_processed_count' = 0
    /\ UNCHANGED <<llm_configs, system_prompt, llm_col_map, flag_col_idx,
                   api_idx, user_prompt, all_apis_called_for_row, exc, console,
                   run, calls, sheet0, dirty, config_file, file0, visits,
                   final_saves, last_save>>

read_and_process_excel ==
    /\ pc = "defaults"
    /\ \E ok \in SaveOutcomes :
         /\ faults' = faults + Cost(ok)
         /\ file' = IF ok THEN DefaultedFlags(file) ELSE file
    /\ pc' = "row"
    /\ row_idx' = FIRST_ROW
    /\ rows_processed_count' = 0
    /\ UNCHANGED <<llm_configs, system_prompt, sheet, llm_col_map, flag_col_idx,
                   api_idx, user_prompt, all_apis_called_for_row, exc, console,
                   run, calls, sheet0, dirty, config_file, file0, visits,
                   final_saves, last_save>>

(***************************************************************************)
(* The top of one iteration of the row loop: read the flag and the prompt  *)
(* and decide.  A row that is skipped, and a row with an empty prompt, end *)
(* here; any other row goes on to the loop over the LLMs.                  *)
(***************************************************************************)
BeginRow ==
    /\ pc = "row"
    /\ row_idx <= Len(sheet)
    /\ LET should_generate_val == Cell(sheet, row_idx, flag_col_idx)
           d == FlagDecision(should_generate_val)
           coerced == IF d.coerce
                        THEN SetCell(sheet, row_idx, flag_col_idx, PyInt(0))
                        ELSE sheet
           prompt == PromptOf(Cell(sheet, row_idx, 1))
       IN  IF ~d.row_needs_processing
             THEN /\ row_idx' = row_idx + 1
                  /\ UNCHANGED <<sheet, pc, api_idx, user_prompt,
                                 all_apis_called_for_row, dirty>>
           ELSE IF prompt # <<>>
             THEN /\ sheet' = coerced
                  /\ dirty' = (dirty \/ d.coerce)
                  /\ user_prompt' = prompt
                  /\ all_apis_called_for_row' = TRUE
                  /\ api_idx' = 1
                  /\ pc' = "apis"
                  /\ UNCHANGED row_idx
           ELSE /\ sheet' = SetCell(coerced, row_idx, flag_col_idx, PyInt(1))
                /\ dirty' = TRUE
                /\ row_idx' = row_idx + 1
                /\ UNCHANGED <<pc, api_idx, user_prompt, all_apis_called_for_row>>
    /\ visits' = Append(visits, row_idx)
    /\ UNCHANGED <<file, llm_configs, system_prompt, llm_col_map, flag_col_idx,
                   rows_processed_count, exc, console, run, faults, calls, sheet0,
                   config_file, file0, final_saves, last_save>>

(***************************************************************************)
(* One iteration of the loop over llm_configs: look the column up, call    *)
(* the API, write what it returned into the column.  An exception that     *)
(* leaves call_api, or that the cell assignment raises, goes to the row's  *)
(* except clause.                                                          *)
(***************************************************************************)
FaultOf(cfg, resp) == IF resp = PlainText(cfg) THEN 0 ELSE 1

\* The line the loop prints after it has written the result: "API call
\* failed ..." when the failure test matches, "Result ... written" when not;
\* nothing when the call or the assignment raised.
ResultLine(api_result) ==
    IF api_result.raised \/ ~CellAccepts(api_result.val) THEN ""
    ELSE IF IsErrorResult(api_result.val) THEN "API call failed"
    ELSE "Result written"

CallApi ==
    /\ pc = "apis"
    /\ api_idx <= Len(llm_configs)
    /\ LET api_config == llm_configs[api_idx]
           output_col_idx == ColGet(llm_col_map, api_config.NAME)
       IN  IF ~api_config.IS_ENABLED
             THEN /\ api_idx' = api_idx + 1
                  /\ UNCHANGED <<sheet, pc, all_apis_called_for_row, exc, console,
                                 faults, calls, dirty>>
           ELSE IF output_col_idx = 0
             THEN /\ all_apis_called_for_row' = FALSE
                  /\ api_idx' = api_idx + 1
                  /\ UNCHANGED <<sheet, pc, exc, console, faults, calls, dirty>>
           ELSE \E resp \in Responses(api_config) :
                  LET api_result == call_api(api_config, system_prompt, user_prompt, resp)
                  IN  /\ faults + FaultOf(api_config, resp) <= MaxFaults
                      /\ faults' = faults + FaultOf(api_config, resp)
                      /\ calls' = Append(calls, [row |-> row_idx,
                                                 api |-> api_idx,
                                                 system_prompt |-> system_prompt,
                                                 user_prompt |-> user_prompt,
                                                 failure |-> IsFailureOutcome(api_config, resp),
                                                 result |-> api_result,
                                                 printed |-> ResultLine(api_result)])
                      /\ IF api_result.raised
                           THEN /\ pc' = "except"
                                /\ exc' = api_result.msg
                                /\ UNCHANGED <<sheet, api_idx, console, dirty>>
                         ELSE IF ~CellAccepts(api_result.val)
                           THEN /\ pc' = "except"
                                /\ exc' \in RefusedMessages(api_result.val)
                                /\ UNCHANGED <<sheet, api_idx, console, dirty>>
                         ELSE /\ sheet' = SetCell(sheet, row_idx, output_col_idx,
                                                  PyStr(api_result.val))
                              /\ dirty' = TRUE
                              /\ console' = ResultLine(api_result)
                              /\ api_idx' = api_idx + 1
                              /\ UNCHANGED <<pc, exc>>
                      /\ UNCHANGED all_apis_called_for_row
    /\ UNCHANGED <<file, llm_configs, system_prompt, llm_col_map, flag_col_idx,
                   row_idx, user_prompt, rows_processed_count, run, sheet0,
                   config_file, file0, visits, final_saves, last_save>>

\* After the loop over the LLMs: the flag goes to 1 when no column was
\* missing.
UpdateFlag ==
    /\ pc = "apis"
    /\ api_idx > Len(llm_configs)
    /\ IF all_apis_called_for_row
         THEN /\ sheet' = SetCell(sheet, row_idx, flag_col_idx, PyInt(1))
              /\ dirty' = TRUE
              /\ rows_processed_count' = rows_processed_count + 1
         ELSE UNCHANGED <<sheet, dirty, rows_processed_count>>
    /\ pc' = "save"
    /\ UNCHANGED <<file, llm_configs, system_prompt, llm_col_map, flag_col_idx,
                   row_idx, api_idx, user_prompt, all_apis_called_for_row, exc,
                   console, run, faults, calls, sheet0, config_file, file0,
                   visits, final_saves, last_save>>

\* workbook.save(EXCEL_FILE) after the row; a failure is printed and the
\* loop goes on.
SaveRow ==
    /\ pc = "save"
    /\ \E ok \in SaveOutcomes :
         /\ faults' = faults + Cost(ok)
         /\ file' = IF ok THEN sheet ELSE file
         /\ last_save' = [row |-> row_idx, ok |-> ok]
    /\ dirty' = FALSE
    /\ row_idx' = row_idx + 1
    /\ pc' = "row"
    /\ UNCHANGED <<llm_configs, system_prompt, sheet, llm_col_map, flag_col_idx,
                   api_idx, user_prompt, all_apis_called_for_row,
                   rows_processed_count, exc, console, run, calls, sheet0,
                   config_file, file0, visits, final_saves>>

(***************************************************************************)
(* The row's except clause: write the error text into the first LLM       *)
(* column, then set the flag to 1; if the write raises, both are given up. *)
(***************************************************************************)
\* HandleRowException with the try around the whole loop instead of around
\* one row: the exception ends the loop.
HandleRowException_EndsLoop ==
    /\ pc = "except"
    /\ LET text == <<"Error", " processing row: ">> \o exc
       IN  IF DOMAIN llm_col_map # {} /\ CellAccepts(text)
             THEN /\ sheet' = SetCell(
                                SetCell(sheet, row_idx, first_llm_col(llm_col_map),
                                        PyStr(text)),
                                row_idx, flag_col_idx, PyInt(1))
                  /\ dirty' = TRUE
             ELSE UNCHANGED <<sheet, dirty>>
    /\ exc' = <<>>
    /\ row_idx' = Len(sheet) + 1
    /\ pc' = "row"
    /\ UNCHANGED <<file, llm_configs, system_prompt, llm_col_map, flag_col_idx,
                   api_idx, user_prompt, all_apis_called_for_row,
                   rows_processed_count, console, run, faults, calls, sheet0,
                   config_file, file0, visits, final_saves, last_save>>

HandleRowException ==
    /\ pc = "except"
    /\ LET text == <<"Error", " processing row: ">> \o exc
       IN  IF DOMAIN llm_col_map # {} /\ CellAccepts(text)
             THEN /\ sheet' = SetCell(
                                SetCell(sheet, row_idx, first_llm_col(llm_col_map),
                                        PyStr(text)),
                                row_idx, flag_col_idx, PyInt(1))
                  /\ dirty' = TRUE
             ELSE UNCHANGED <<sheet, dirty>>
    /\ exc' = <<>>
    /\ row_idx' = row_idx + 1
    /\ pc' = "row"
    /\ UNCHANGED <<file, llm_configs, system_prompt, llm_col_map, flag_col_idx,
                   api_idx, user_prompt, all_apis_called_for_row,
                   rows_processed_count, console, run, faults, calls, sheet0,
                   config_file, file0, visits, final_saves, last_save>>

\* The loop over the rows is over.  Step 5: apply_formatting (styles only)
\* and the final workbook.save; a failure is printed.
FinalSave ==
    /\ pc = "row"
    /\ row_idx > Len(sheet)
    /\ \E ok \in SaveOutcomes :
         /\ faults' = faults + Cost(ok)
         /\ file' = IF ok THEN sheet ELSE file
         /\ last_save' = [row |-> row_idx, ok |-> ok]
    /\ final_saves' = final_saves + 1
    /\ dirty' = FALSE
    /\ pc' = "done"
    /\ UNCHANGED <<llm_configs, system_prompt, sheet, llm_col_map, flag_col_idx,
                   row_idx, api_idx, user_prompt, all_apis_called_for_row,
                   rows_processed_count, exc, console, run, calls, sheet0,
                   config_file, file0, visits>>

\* The script is started again on the file the last run left.
Rerun ==
    /\ pc \in {"done", "exit"}
    /\ run < MaxRuns
    /\ run' = run + 1
    /\ pc' = "start"
    /\ sheet' = <<>>
    /\ llm_col_map' = <<>>
    /\ flag_col_idx' = 0
    /\ row_idx' = 0
    /\ api_idx' = 0
    /\ user_prompt' = <<>>
    /\ all_apis_called_for_row' = FALSE
    /\ rows_processed_count' = 0
    /\ exc' = <<>>
    /\ console' = ""
    /\ calls' = <<>>
    /\ sheet0' = <<>>
    /\ dirty' = FALSE
    /\ file0' = file
    /\ visits' = <<>>
    /\ final_saves' = 0
    /\ last_save' = NoSave
    /\ UNCHANGED <<file, llm_configs, system_prompt, faults, config_file>>

Next ==
    \/ Start
    \/ read_and_process_excel
    \/ BeginRow
    \/ CallApi
    \/ UpdateFlag
    \/ SaveRow
    \/ HandleRowException
    \/ FinalSave
    \/ Rerun

Spec == Init /\ [][Next]_vars

(***************************************************************************)
(* Vocabulary of the properties.                                           *)
(***************************************************************************)
DataRowsOf(sh) == 2..Len(sh)

\* The loop has left row r behind.
Finished(r) ==
    \/ pc = "done"
    \/ pc \in {"row", "apis", "save", "except"} /\ r < row_idx

\* The positions in `calls` of the invocations made for row r.
CallsFor(r) == {k \in 1..Len(calls) : calls[k].row = r}

\* Row r raised in this run: a call for it raised, or returned a value the
\* cell refused.
RowRaised(r) ==
    \E k \in CallsFor(r) :
        calls[k].result.raised \/ ~CellAccepts(calls[k].result.val)

\* As the run loaded it, row r is one the loop processes with a prompt.
NeedsWork(r) ==
    /\ FlagDecision(sheet0[r][flag_col_idx]).row_needs_processing
    /\ PromptOf(sheet0[r][1]) # <<>>

Unset(sh) == {r \in DataRowsOf(sh) : sh[r][find_column_index(sh, FLAG_HEADER)] = None}

(***************************************************************************)
(* C1.  A row whose flag is exactly 1 when the run loads it is left alone: *)
(* no call_api is made for it and no cell of it changes, in memory or on   *)
(* disk, in the first run and in every later one, whatever its output      *)
(* cells hold.                                                             *)
(***************************************************************************)
C1_DoneRowUntouched ==
    \A r \in DataRowsOf(sheet) :
        sheet0[r][flag_col_idx] = PyInt(1)
          => /\ sheet[r] = sheet0[r]
             /\ file[r] = sheet0[r]
             /\ CallsFor(r) = {}

\* A second run has ended in which a row was flagged 1 on loading with a
\* failure string of the first run in one output cell, and another row
\* was worked on.
C1_Witness ==
    /\ run = 2
    /\ pc = "done"
    /\ Len(calls) > 0
    /\ \E r \in DataRowsOf(sheet) :
         /\ sheet0[r][flag_col_idx] = PyInt(1)
         /\ sheet0[r][4] = PyStr(ErrorOf("Gem", " API request timed out."))

(***************************************************************************)
(* C2.  A row that needs work and has a prompt, once call_api has been     *)
(* made for every configured LLM and the loop has left the row, has its    *)
(* flag at 1, whatever the calls returned.                                 *)
(***************************************************************************)
C2_AttemptedRowIsDone ==
    \A r \in DataRowsOf(sheet) :
        ( /\ NeedsWork(r)
          /\ Finished(r)
          /\ \A a \in 1..Len(llm_configs) : \E k \in CallsFor(r) : calls[k].api = a )
          => sheet[r][flag_col_idx] = PyInt(1)

(***************************************************************************)
(* C3.  When the loop comes to a row, no cell has been set since the last  *)
(* workbook.save: every change made in a row is saved before the next row  *)
(* is read.                                                                *)
(***************************************************************************)
C3_SavedBeforeNextRow ==
    (pc = "row" /\ row_idx <= Len(sheet)) => ~dirty

(***************************************************************************)
(* C4.  A row in which an exception was raised ends with the error text    *)
(* in the first LLM column and its flag at 1.                              *)
(***************************************************************************)
C4_ExceptionContained ==
    \A r \in DataRowsOf(sheet) :
        (RowRaised(r) /\ Finished(r))
          => /\ sheet[r][flag_col_idx] = PyInt(1)
             /\ LET v == sheet[r][first_llm_col(llm_col_map)]
                IN  v.t = "str" /\ StartsWith(v.s, <<"Error", " processing row: ">>)

(***************************************************************************)
(* C5.  A row that needs work and whose prompt cell is empty, absent or    *)
(* white space gets no call_api, keeps its output cells, and has its flag  *)
(* at 1 once the loop has left it, so also when the run ends.              *)
(***************************************************************************)
C5_EmptyPromptRow ==
    \A r \in DataRowsOf(sheet) :
        ( /\ FlagDecision(sheet0[r][flag_col_idx]).row_needs_processing
          /\ ~Truthy(sheet0[r][1]) \/ sheet0[r][1] = PyStr(<<WS>>) )
          => /\ CallsFor(r) = {}
             /\ \A c \in 3..Len(sheet[r]) : sheet[r][c] = sheet0[r][c]
             /\ Finished(r) => sheet[r][flag_col_idx] = PyInt(1)

\* A run has ended in which a pending row with a white-space prompt got its
\* flag set and another row was worked on.
C5_Witness ==
    /\ pc = "done"
    /\ Len(calls) > 0
    /\ \E r \in DataRowsOf(sheet) :
         /\ sheet0[r][1] = PyStr(<<WS>>)
         /\ sheet0[r][flag_col_idx] = PyInt(0)
         /\ sheet[r][flag_col_idx] = PyInt(1)

(***************************************************************************)
(* C6.  Once the file holds no empty flag, no later step writes one back.  *)
(***************************************************************************)
C6_NoUnsetWrittenBack ==
    [][(file # <<>> /\ Unset(file) = {}) => Unset(file') = {}]_vars

(***************************************************************************)
(* C7, as claimed.  A row whose flag is out of range or not a number, and  *)
(* whose prompt is not empty, has had call_api made for it when the run    *)
(* ends.                                                                   *)
(***************************************************************************)
C7_InvalidFlagProcessed ==
    \A r \in DataRowsOf(sheet) :
        ( /\ pc = "done"
          /\ sheet0[r][flag_col_idx] \notin {PyInt(0), PyInt(1)}
          /\ PromptOf(sheet0[r][1]) # <<>> )
          => CallsFor(r) # {}

(***************************************************************************)
(* C7, amended.  A row whose flag is empty or not a number is set to 0 and *)
(* processed in the same run: with a prompt, call_api is made for it,      *)
(* first for the first LLM, and its flag ends 0 or 1.  A row whose flag is *)
(* an integer other than 0 and 1 is skipped: no call, no cell changed.     *)
(***************************************************************************)
C7_NonNumericProcessedOutOfRangeSkipped ==
    \A r \in DataRowsOf(sheet) :
        LET f == sheet0[r][flag_col_idx]
        IN  /\ (IntOf(f).exc # "" /\ PromptOf(sheet0[r][1]) # <<>> /\ Finished(r))
                 => /\ CallsFor(r) # {}
                    /\ \A k \in CallsFor(r) : \A j \in CallsFor(r) :
                         k <= j => calls[k].api <= calls[j].api
                    /\ \E k \in CallsFor(r) : calls[k].api = 1
                    /\ sheet[r][flag_col_idx] \in {PyInt(0), PyInt(1)}
            /\ (IntOf(f).exc = "" /\ IntOf(f).n \notin {0, 1})
                 => /\ CallsFor(r) = {}
                    /\ sheet[r] = sheet0[r]

\* A run has ended on a document with a row flagged 2 and a row flagged
\* "abc", both with a prompt; the second was processed.
C7_Witness ==
    /\ pc = "done"
    /\ \E r \in DataRowsOf(sheet) :
         /\ sheet0[r][flag_col_idx] = PyInt(2)
         /\ PromptOf(sheet0[r][1]) # <<>>
    /\ \E r \in DataRowsOf(sheet) :
         /\ sheet0[r][flag_col_idx] = PyStr(<<"abc">>)
         /\ PromptOf(sheet0[r][1]) # <<>>
         /\ CallsFor(r) # {}
         /\ sheet[r][flag_col_idx] = PyInt(1)

(***************************************************************************)
(* C8.  For a row that needs work and has a prompt, once the loop has left *)
(* it, call_api has been made exactly once for every configured LLM, in    *)
(* the order of llm_configs, with the row's prompt and the system prompt,  *)
(* and each LLM's column holds what its call returned.                     *)
(***************************************************************************)
C8_EveryBackendOnceInOrder ==
    \A r \in DataRowsOf(sheet) :
        (NeedsWork(r) /\ Finished(r))
          => /\ Cardinality(CallsFor(r)) = Len(llm_configs)
             /\ \A k \in CallsFor(r) :
                  /\ calls[k].api = 1 + Cardinality({j \in CallsFor(r) : j < k})
                  /\ calls[k].user_prompt = PromptOf(sheet0[r][1])
                  /\ calls[k].system_prompt = system_prompt
                  /\ ~calls[k].result.raised
                  /\ sheet[r][calls[k].api + 2] = PyStr(calls[k].result.val)

(***************************************************************************)
(* C10.  Every failure outcome call_api returned is taken for a failure by *)
(* the test the loop makes on it: it starts with "Error:" and the loop     *)
(* printed "API call failed".                                              *)
(***************************************************************************)
C10_FailureRecognized ==
    \A k \in 1..Len(calls) :
        (calls[k].failure /\ ~calls[k].result.raised)
          => /\ IsErrorResult(calls[k].result.val)
             /\ calls[k].printed = "API call failed"


(***************************************************************************)
(* C11.  On a configuration error (the .config file is missing or          *)
(* unreadable, it gives no valid backend, or the document exists with a    *)
(* header row other than the expected one) the run halts before any row    *)
(* is touched: no call_api is made, the flags are not defaulted, the row   *)
(* loop visits nothing and the file stays as the run found it.             *)
(***************************************************************************)
ConfigError ==
    \/ read_config(config_file) = <<>>
    \/ file0 # <<>> /\ file0[1] # expected_headers(read_config(config_file))

C11_HaltsOnConfigError ==
    (ConfigError /\ pc # "start")
      => /\ pc = "exit"
         /\ file = file0
         /\ calls = <<>>
         /\ visits = <<>>
         /\ sheet = <<>>

\* A run has halted on a document whose header row names the backends of
\* another .config, with a flag cell the defaulting would have filled.
C11_Witness ==
    /\ pc = "exit"
    /\ read_config(config_file) # <<>>
    /\ file0 # <<>>
    /\ file0[1] # expected_headers(read_config(config_file))
    /\ Unset(file0) # {}

(***************************************************************************)
(* C12.  When every data row is loaded with an empty flag or with 0, then  *)
(* at the end of the run the header row is as it was loaded and every data *)
(* row has its flag at 1; a row with a prompt holds, in the column of      *)
(* every LLM, what call_api returned for that LLM; a row without a prompt  *)
(* holds nothing in the LLM columns.                                       *)
(***************************************************************************)
C12_CompleteRun ==
    (pc = "done" /\ \A r \in DataRowsOf(sheet0) :
                       sheet0[r][flag_col_idx] \in {None, PyInt(0)})
      => /\ sheet[1] = sheet0[1]
         /\ \A r \in DataRowsOf(sheet) :
              /\ sheet[r][flag_col_idx] = PyInt(1)
              /\ \A i \in 1..Len(llm_configs) :
                   LET col == ColGet(llm_col_map, llm_configs[i].NAME)
                   IN  IF PromptOf(sheet0[r][1]) # <<>>
                         THEN \E k \in CallsFor(r) :
                                /\ calls[k].api = i
                                /\ ~calls[k].result.raised
                                /\ sheet[r][col] = PyStr(calls[k].result.val)
                         ELSE sheet[r][col] = None

(***************************************************************************)
(* C13.  Defaulting the flags is idempotent and changes nothing but empty  *)
(* flag cells: right after read_and_process_excel the file differs from    *)
(* the document as loaded only in flag cells of data rows that were empty  *)
(* and are now 0; if it was written no empty flag is left; and defaulting  *)
(* the flags of a file without empty flags gives the same file.            *)
(***************************************************************************)
C13_DefaultingIdempotent ==
    (pc = "row" /\ visits = <<>>)
      => /\ Len(file) = Len(sheet0)
         /\ \A r \in 1..Len(file) : \A c \in 1..Len(file[r]) :
              file[r][c] # sheet0[r][c]
                => /\ r >= 2
                   /\ c = flag_col_idx
                   /\ sheet0[r][c] = None
                   /\ file[r][c] = PyInt(0)
         /\ file # sheet0 => Unset(file) = {}
         /\ Unset(file) = {} => DefaultedFlags(file) = file
         /\ DefaultedFlags(DefaultedFlags(file)) = DefaultedFlags(file)

\* read_and_process_excel has just written a document in which one data
\* row had an empty flag and another had not.
C13_Witness ==
    /\ pc = "row"
    /\ visits = <<>>
    /\ file # sheet0
    /\ Unset(sheet0) # {}
    /\ Unset(sheet0) # DataRowsOf(sheet0)

(***************************************************************************)
(* C14.  The row loop ends: it takes the rows 2, 3, ... one after the      *)
(* other, each once, whatever the calls return or raise and whether the    *)
(* saves fail or not; step 5 runs once, after the last row, also when the  *)
(* document has no data row; and from the defaulting of the flags to the   *)
(* end of main() there is always a next step, and every step brings the    *)
(* end nearer: the number of steps left is bounded by StepsLeft.           *)
(***************************************************************************)
InLoop == pc \in {"row", "apis", "save", "except"}

\* The most steps main() can still take: per row the reading of the row,
\* one step per LLM, the flag and the save; then step 5.
StepsLeft ==
    LET per_row == Len(llm_configs) + 3
        rows_left == Len(sheet) + 1 - row_idx
    IN  IF pc = "defaults" THEN (Len(sheet) - 1) * per_row + 2
        ELSE IF pc = "row" THEN rows_left * per_row + 1
        ELSE IF pc = "apis" THEN rows_left * per_row + 1 - api_idx
        ELSE IF pc \in {"save", "except"} THEN (rows_left - 1) * per_row + 2
        ELSE 0

C14_VisitedInOrder ==
    /\ \A i \in 1..Len(visits) : visits[i] = i + 1
    /\ pc = "row" => Len(visits) = row_idx - 2
    /\ pc \in {"apis", "save", "except"} => Len(visits) = row_idx - 1
    /\ InLoop => final_saves = 0 /\ row_idx <= Len(sheet) + 1
    /\ pc = "done" => final_saves = 1 /\ Len(visits) = Len(sheet) - 1
    /\ (pc = "defaults" \/ InLoop) => ENABLED Next

C14_EveryRowOnceThenFinalSave ==
    /\ []C14_VisitedInOrder
    /\ [][(pc = "defaults" \/ InLoop)
            => /\ pc' = "done" \/ InLoop'
               /\ StepsLeft' < StepsLeft
               /\ StepsLeft' >= 0]_vars

\* A run has ended in which one row raised and the save of another failed.
C14_Witness ==
    /\ pc = "done"
    /\ Len(visits) = 2
    /\ \E r \in DataRowsOf(sheet) : RowRaised(r)
    /\ \E r \in DataRowsOf(sheet) : file[r] # sheet[r]

(***************************************************************************)
(* C15.  Neither the header row nor the rows of a leading guide block are  *)
(* work rows: no call_api is made for them and the run does not set their  *)
(* flag to 1.  The block is taken at its smallest, the first row after the *)
(* header row.                                                             *)
(***************************************************************************)
GuideBlock == {FIRST_ROW}

C15_HeaderAndGuideRowsNeverWorked ==
    /\ \A k \in 1..Len(calls) : calls[k].row \notin {1} \cup GuideBlock
    /\ \A r \in GuideBlock \cap DataRowsOf(sheet) :
         sheet[r][flag_col_idx] = PyInt(1) => sheet0[r][flag_col_idx] = PyInt(1)

(***************************************************************************)
(* C16.  call_api is total: whatever the TYPE of the backend and whatever  *)
(* the network answers, it returns a string and does not raise; for an     *)
(* unsupported TYPE it returns a failure string and sends no request.      *)
(***************************************************************************)
C16_InvokerTotal ==
    \A k \in 1..Len(calls) :
        /\ ~calls[k].result.raised
        /\ llm_configs[calls[k].api].TYPE \notin {"openai", "google"}
             => /\ ~calls[k].result.sent
                /\ StartsWith(calls[k].result.val, <<"Error">>)

(***************************************************************************)
(* C17.  read_config returns the [API_*] sections that have a KEY, an      *)
(* ENDPOINT and a MODEL and are enabled, in the order of the file; a       *)
(* section that fails this is left out and the others are still returned;  *)
(* a missing or unreadable file gives the empty list.                      *)
(***************************************************************************)
C17_ValidSectionsInOrder ==
    pc # "start"
      => llm_configs = IF config_file.kind = "sections"
                         THEN LoadSections(config_file.sections)
                         ELSE <<>>

(***************************************************************************)
(* C18.  As long as nothing has failed in the run, the file holds, for     *)
(* every row the loop has left behind, the cells the workbook in memory    *)
(* holds for it: what is in memory only is the row the loop is at.         *)
(***************************************************************************)
C18_FinishedRowsPersisted ==
    (faults = 0 /\ (InLoop \/ pc = "done"))
      => \A r \in DataRowsOf(sheet) : Finished(r) => file[r] = sheet[r]

(***************************************************************************)
(* C19.  After a workbook.save of the row loop has failed the loop goes    *)
(* on, and by the time it has left the next row behind and is at a row     *)
(* after it, whatever row the next one was, workbook.save has been called  *)
(* again; the final save is made whatever failed before, and main() ends   *)
(* whether it fails or not.                                                *)
(***************************************************************************)
C19_FailedSaveRetriedAtNextRow ==
    /\ (InLoop /\ row_idx <= Len(sheet) /\ ~last_save.ok)
         => row_idx = last_save.row + 1
    /\ pc = "done" => last_save.row = row_idx

(***************************************************************************)
(* C20.  A row that needs work and has a prompt is not flagged 1 in the    *)
(* file by this run unless call_api has been made for every configured LLM *)
(* for that row.                                                           *)
(***************************************************************************)
C20_DoneOnDiskOnlyAfterAllAttempted ==
    (InLoop \/ pc = "done")
      => \A r \in DataRowsOf(sheet) :
           (NeedsWork(r) /\ file[r][flag_col_idx] = PyInt(1))
             => \A i \in 1..Len(llm_configs) :
                  \E k \in CallsFor(r) : calls[k].api = i

(***************************************************************************)
(* C21.  Once initialize_excel has succeeded, the column llm_col_map gives *)
(* for the NAME of every configured LLM is the column find_column_index    *)
(* finds for that NAME in the header row, and two LLMs are never given the *)
(* same column.                                                            *)
(***************************************************************************)
C21_MapAgreesWithHeaderScan ==
    pc \notin {"start", "exit"}
      => /\ \A i \in 1..Len(llm_configs) :
              ColGet(llm_col_map, llm_configs[i].NAME)
                = find_column_index(sheet, llm_configs[i].NAME)
         /\ \A i, j \in 1..Len(llm_configs) :
              i # j => ColGet(llm_col_map, llm_configs[i].NAME)
                         # ColGet(llm_col_map, llm_configs[j].NAME)

(***************************************************************************)
(* C22.  What the row loop does is the same whether the defaulting of the  *)
(* flags was written or not: when the loop starts, the workbook main()     *)
(* holds is the one it loaded, empty flags included; and a row whose flag  *)
(* is empty in memory is taken exactly like the same row with the flag at  *)
(* 0: after the row has been read, the workbook, the prompt and the        *)
(* position of the loop are those of the row with 0 in its flag cell.      *)
(***************************************************************************)
C22_LoopStartsOnLoadedWorkbook ==
    (pc = "row" /\ visits = <<>>) => sheet = sheet0

C22_UnsetTakenAsPending ==
    (/\ pc = "row"
     /\ row_idx <= Len(sheet)
     /\ Cell(sheet, row_idx, flag_col_idx) \in {None, PyInt(0)})
      => LET pending == SetCell(sheet, row_idx, flag_col_idx, PyInt(0))
             prompt == PromptOf(Cell(sheet, row_idx, 1))
         IN  IF prompt # <<>>
               THEN /\ sheet' = pending
                    /\ pc' = "apis"
                    /\ row_idx' = row_idx
                    /\ api_idx' = 1
                    /\ user_prompt' = prompt
                    /\ all_apis_called_for_row'
               ELSE /\ sheet' = SetCell(pending, row_idx, flag_col_idx, PyInt(1))
                    /\ pc' = "row"
                    /\ row_idx' = row_idx + 1

C22_IndependentOfDefaulting ==
    /\ []C22_LoopStartsOnLoadedWorkbook
    /\ [][C22_UnsetTakenAsPending]_vars

\* The defaulting was not written (the flag of the row is still empty in
\* the file), the row was loaded with an empty flag and a prompt, and the
\* loop is at its LLMs with the flag at 0 in memory.
C22_Witness ==
    /\ pc = "apis"
    /\ sheet0[row_idx][flag_col_idx] = None
    /\ file[row_idx][flag_col_idx] = None
    /\ sheet[row_idx][flag_col_idx] = PyInt(0)

(***************************************************************************)
(* C23.  The row loop changes cells only in the flag column and in the LLM *)
(* columns of the rows 2..: in memory and in the file, the header row and  *)
(* every prompt cell are what the run loaded, whatever the rows did        *)
(* (exceptions included), no row or cell is added or removed, and a flag   *)
(* cell that was changed holds 0 or 1.                                     *)
(***************************************************************************)
LLMColumns == {llm_col_map[nm] : nm \in DOMAIN llm_col_map}

FrameKept(sh) ==
    /\ Len(sh) = Len(sheet0)
    /\ sh[1] = sheet0[1]
    /\ \A r \in DataRowsOf(sh) :
         /\ Len(sh[r]) = Len(sheet0[r])
         /\ sh[r][1] = sheet0[r][1]
         /\ \A c \in 1..Len(sh[r]) :
              sh[r][c] # sheet0[r][c]
                => /\ c \in {flag_col_idx} \cup LLMColumns
                   /\ c = flag_col_idx => sh[r][c] \in {PyInt(0), PyInt(1)}

C23_OnlyFlagAndOutputCellsChange ==
    (InLoop \/ pc = "done") => FrameKept(sheet) /\ FrameKept(file)

\* A run has ended in which one row went through the except clause, and the
\* flag of another went from a text to 0 and then to 1.
C23_Witness ==
    /\ pc = "done"
    /\ \E r \in DataRowsOf(sheet) :
         /\ RowRaised(r)
         /\ sheet[r][flag_col_idx] = PyInt(1)
         /\ sheet[r] # sheet0[r]
    /\ \E r \in DataRowsOf(sheet) :
         /\ sheet0[r][flag_col_idx] = PyStr(<<"abc">>)
         /\ sheet[r][flag_col_idx] = PyInt(1)

=============================================================================
